---- MODULE Spec2Model ----
(***************************************************************************)
(* kAirPods service: the bounded circular buffer Ring<T, N> (ringbuf.rs)   *)
(* and the event bus EventProcessor (main.rs), as state machines.          *)
(*                                                                         *)
(* Spec     : one Ring<T, N> driven by push / extend / truncate_front /    *)
(*            clear, for every capacity N in 1..MaxN.                      *)
(* BusSpec  : the producers' emit calls and handle drops interleaved with  *)
(*            the dispatcher task's recv loop, one atomic access per step. *)
(***************************************************************************)
EXTENDS Integers, Sequences, FiniteSets, TLC

(***************************************************************************)
(* Bounds of the model.                                                    *)
(***************************************************************************)
\* largest capacity N of a Ring<T, N> that is explored
MaxN == 3
\* cap on the number of push calls made on one ring (tail is unbounded in the code)
MaxPushes == 6
\* longest iterator handed to extend
MaxExt == 2

\* number of producer contexts that may come to hold a handle of the bus
NumProducers == 2
\* cap on the emit calls made in total (the queue itself is unbounded)
MaxEnvelopes == 3

\* cap on the emit calls made while the dispatcher's IPC actions are followed
MaxEvents == 2

\* element values pushed by the callers; T::default() is Default
Values == {1, 2}
Default == 0

VARIABLES
    N,            \* Ring: the const generic capacity
    rb,           \* Ring: [data |-> [0..N-1 -> T], tail |-> usize]
    log,          \* every value pushed since new(), in push order
    only_pushed,  \* TRUE while push/extend are the only calls made since new()
    call,         \* the last call: its name, argument and the ring at entry
    queue,        \* EventProcessor.queue: the SegQueue, oldest first
    notify,       \* the Notified future of recv: "none", "waiting" or "notified"
    pstate,       \* each producer's handle and position in emit
    emitted,      \* each producer's number of emit calls begun
    pushed,       \* every envelope pushed so far, in arrival order
    cpc,          \* the dispatcher task's position in recv / the loop
    cur,          \* the value the last recv returned (Option)
    received,     \* the envelopes recv has returned, in order
    dispatched,   \* the envelopes handed to dispatch, in order
    dstep,        \* dispatch: the number of IPC calls of the current envelope made
    out,          \* the IPC calls made by dispatch, in order, with their outcome
    media,        \* the media-control calls made by dispatch, in order
    results,      \* what each dispatch call returned to the loop: "ok" or "err"
    PAUSED_PLAYERS,  \* media_control: the players recorded as paused by us
    locked,          \* media_control: TRUE while a guard of PAUSED_PLAYERS is alive
    mpc,             \* media_control: the position of the running send_play / send_pause
    paused_players,  \* media_control: the local vector of the running call
    mpris_services,  \* send_pause: the players found on the bus
    next_player,     \* the index of the running for loop
    sent,            \* the MPRIS commands sent by the running or last call, in order
    recorded,        \* PAUSED_PLAYERS as it was when the running or last call began
    last_call        \* the running or last call: "none", "send_play" or "send_pause"

ringVars == <<N, rb, log, only_pushed, call>>

busVars == <<queue, notify, pstate, emitted, pushed, cpc, cur, received, dispatched>>

dispVars == <<dstep, out, media, results>>

mediaVars == <<PAUSED_PLAYERS, locked, mpc, paused_players, mpris_services,
               next_player, sent, recorded, last_call>>

vars == <<N, rb, log, only_pushed, call,
          queue, notify, pstate, emitted, pushed, cpc, cur, received, dispatched,
          dstep, out, media, results,
          PAUSED_PLAYERS, locked, mpc, paused_players, mpris_services,
          next_player, sent, recorded, last_call>>

(***************************************************************************)
(* Helpers of the Rust standard library, modelled by what they do.         *)
(***************************************************************************)
\* Option<&T>
None == <<>>
Some(x) == <<x>>

\* the outcome of an out-of-bounds index or slice, a panic: a value no slot holds
Panic == -1

\* data[k] on an array of n slots
At(d, n, k) == IF k \in 0..(n - 1) THEN d[k] ELSE Panic

\* &data[a..b] on an array of n slots, as a sequence
Slice(d, n, a, b) ==
    IF a <= b /\ b <= n /\ a >= 0
    THEN [i \in 1..(b - a) |-> d[a + i - 1]]
    ELSE <<Panic>>

\* <[T]>::rotate_left(mid): the element at index mid becomes the first
rotate_left(d, n, mid) ==
    IF mid \in 0..n
    THEN [i \in 0..(n - 1) |-> d[(i + mid) % n]]
    ELSE [i \in 0..(n - 1) |-> Panic]

\* the last k elements of a sequence
LastK(s, k) == SubSeq(s, Len(s) - k + 1, Len(s))

(***************************************************************************)
(* Ring<T, N>                                                              *)
(***************************************************************************)
\* Ring::new
new(n) == [data |-> [i \in 0..(n - 1) |-> Default], tail |-> 0]

\* mutant of len: the counter is returned without the cap at the capacity
len_uncapped(n, r) == r.tail

\* Ring::len
len(n, r) == IF r.tail > n THEN n ELSE r.tail

\* Ring::is_empty
is_empty(r) == r.tail = 0

\* mutant of head: the oldest element is taken to sit at slot 0 always
head_zero(n, r) == 0

\* Ring::head
head(n, r) == IF r.tail > n THEN (r.tail - n) % n ELSE 0

\* mutant of phys_index: the sum is not wrapped to the storage
phys_index_nomod(n, r, logical) == head(n, r) + logical

\* Ring::phys_index
phys_index(n, r, logical) == (head(n, r) + logical) % n

\* mutant of push: the counter stops at the capacity
push_tail_capped(n, r, value) ==
    [data |-> [r.data EXCEPT ![r.tail % n] = value],
     tail |-> IF r.tail < n THEN r.tail + 1 ELSE n]

\* Ring::push
push(n, r, value) ==
    [data |-> [r.data EXCEPT ![r.tail % n] = value], tail |-> r.tail + 1]

\* mutant of clear: the slots are reset but the counter is not
clear_data_only(r) == [r EXCEPT !.data = [i \in DOMAIN r.data |-> Default]]

\* Ring::clear
clear(r) == [r EXCEPT !.tail = 0]

\* Ring::get
get(n, r, index) ==
    IF index >= len(n, r)
    THEN None
    ELSE Some(At(r.data, n, phys_index(n, r, index)))

\* Ring::last
last(n, r) == IF is_empty(r) THEN None ELSE get(n, r, len(n, r) - 1)

\* Ring::as_slices
as_slices(n, r) ==
    IF len(n, r) = 0
    THEN <<<<>>, <<>>>>
    ELSE LET h == head(n, r)
             tail_pos == r.tail % n
         IN  IF r.tail <= n \/ h < tail_pos
             THEN <<Slice(r.data, n, h, tail_pos), <<>>>>
             ELSE <<Slice(r.data, n, h, n), Slice(r.data, n, 0, tail_pos)>>

\* Ring::iter, collected: RingIter::next drains left, then right
iter(n, r) ==
    LET s == as_slices(n, r)
    IN  IF s[1] = <<Panic>> \/ s[2] = <<Panic>> THEN <<Panic>> ELSE s[1] \o s[2]

\* mutant of truncate_front: the counter is cut but the storage is not rotated
truncate_front_norotate(n, r, count) ==
    IF count >= len(n, r) THEN r ELSE [r EXCEPT !.tail = count]

\* Ring::truncate_front
truncate_front(n, r, count) ==
    IF count >= len(n, r)
    THEN r
    ELSE LET oldest == (r.tail - count) % n
         IN  [data |-> rotate_left(r.data, n, oldest), tail |-> count]

\* Extend::extend: push every item in order
RECURSIVE extend(_, _, _)
extend(n, r, items) ==
    IF items = <<>>
    THEN r
    ELSE extend(n, push(n, r, Head(items)), Tail(items))

(***************************************************************************)
(* The ring's operations as actions.                                       *)
(***************************************************************************)
\* the sequences of at most k values
SeqsUpTo(k) == UNION {[1..m -> Values] : m \in 0..k}

RingInit ==
    /\ N \in 1..MaxN
    /\ rb = new(N)
    /\ log = <<>>
    /\ only_pushed = TRUE
    /\ call = [op |-> "new", arg |-> 0, old |-> new(N)]

\* no event bus is running beside the ring
BusAbsent ==
    /\ queue = <<>>
    /\ notify = "none"
    /\ pstate = <<>>
    /\ emitted = <<>>
    /\ pushed = <<>>
    /\ cpc = "done"
    /\ cur = None
    /\ received = <<>>
    /\ dispatched = <<>>
    /\ dstep = 0
    /\ out = <<>>
    /\ media = <<>>
    /\ results = <<>>

Push(value) ==
    /\ Len(log) < MaxPushes
    /\ rb' = push(N, rb, value)
    /\ log' = Append(log, value)
    /\ call' = [op |-> "push", arg |-> value, old |-> rb]
    /\ UNCHANGED <<N, only_pushed>>
    /\ UNCHANGED busVars
    /\ UNCHANGED mediaVars
    /\ UNCHANGED dispVars

ExtendWith(items) ==
    /\ Len(log) + Len(items) <= MaxPushes
    /\ rb' = extend(N, rb, items)
    /\ log' = log \o items
    /\ call' = [op |-> "extend", arg |-> items, old |-> rb]
    /\ UNCHANGED <<N, only_pushed>>
    /\ UNCHANGED busVars
    /\ UNCHANGED mediaVars
    /\ UNCHANGED dispVars

TruncateFront(count) ==
    /\ rb' = truncate_front(N, rb, count)
    /\ only_pushed' = FALSE
    /\ call' = [op |-> "truncate_front", arg |-> count, old |-> rb]
    /\ UNCHANGED <<N, log>>
    /\ UNCHANGED busVars
    /\ UNCHANGED mediaVars
    /\ UNCHANGED dispVars

Clear ==
    /\ rb' = clear(rb)
    /\ only_pushed' = FALSE
    /\ call' = [op |-> "clear", arg |-> 0, old |-> rb]
    /\ UNCHANGED <<N, log>>
    /\ UNCHANGED busVars
    /\ UNCHANGED mediaVars
    /\ UNCHANGED dispVars

RingNext ==
    \/ \E value \in Values : Push(value)
    \/ \E items \in SeqsUpTo(MaxExt) : ExtendWith(items)
    \/ \E count \in 0..(MaxN + 1) : TruncateFront(count)
    \/ Clear

\* a fresh ring, and nothing else running
\* media_control before any call: static PAUSED_PLAYERS = Mutex::new(Vec::new())
MediaInit ==
    /\ PAUSED_PLAYERS = <<>>
    /\ locked = FALSE
    /\ mpc = "idle"
    /\ paused_players = <<>>
    /\ mpris_services = <<>>
    /\ next_player = 0
    /\ sent = <<>>
    /\ recorded = <<>>
    /\ last_call = "none"

Init == RingInit /\ BusAbsent /\ MediaInit

Spec == Init /\ [][RingNext]_vars

\* the elements the ring retains, oldest first: the newest len() pushed values
Retained == LastK(log, len(N, rb))

\* the ring's logical contents read through get: get(0) .. get(len() - 1)
Contents(n, r) == [i \in 1..len(n, r) |-> get(n, r, i - 1)[1]]

\* the stored data wraps past the physical end of the storage array
Wraps(n, r) == r.tail > n /\ head(n, r) + len(n, r) > n

(***************************************************************************)
(* Claims about Ring<T, N>, checked under Spec.                            *)
(***************************************************************************)

\* C1 (as claimed): after exactly n pushes on a fresh ring with 0 <= n <= N,
\* n == N included, len() == n and iter() yields exactly the n pushed values
\* in push order.
C1_PushesUpToCapacity ==
    (only_pushed /\ Len(log) <= N) =>
        /\ len(N, rb) = Len(log)
        /\ iter(N, rb) = log

\* C2: after exactly n > N pushes on a fresh ring (n a multiple of N included),
\* len() == N, last() is the n-th pushed value, iter() yields exactly the last
\* N pushed values in push order, and a push onto a full ring evicts exactly
\* the single oldest element.
C2_OverwriteOldest ==
    (only_pushed /\ Len(log) > N) =>
        /\ len(N, rb) = N
        /\ last(N, rb) = Some(log[Len(log)])
        /\ iter(N, rb) = LastK(log, N)
        /\ (call.op = "push" /\ len(N, call.old) = N) =>
               Contents(N, rb) = Tail(Contents(N, call.old)) \o <<call.arg>>

C2_Witness ==
    /\ only_pushed
    /\ call.op = "push"
    /\ N = MaxN
    /\ Len(log) = 2 * N
    /\ log[Len(log)] # log[Len(log) - N]

\* C3 (as claimed): in every reachable state the concatenation of the two
\* views of as_slices is the full oldest-to-newest sequence of the len()
\* retained elements, and the second view is empty unless the stored data
\* wraps past the physical end of the storage.
C3_SlicesConcatenate ==
    LET s == as_slices(N, rb)
    IN  /\ s[1] # <<Panic>> /\ s[2] # <<Panic>>
        /\ s[1] \o s[2] = Retained
        /\ Len(s[1]) + Len(s[2]) = len(N, rb)
        /\ (s[2] # <<>>) => Wraps(N, rb)

\* C4: truncate_front(c) with c < len() leaves len() == c and get(0..c-1) the
\* c most recently pushed elements in their original order (c == 0 leaves the
\* ring empty, as clear() does); with c >= len() tail and the logical contents
\* are unchanged.
C4_TruncateFront ==
    (call.op = "truncate_front") =>
        LET c == call.arg
            old == call.old
        IN  IF c < len(N, old)
            THEN /\ len(N, rb) = c
                 /\ \A i \in 0..(c - 1) :
                        /\ get(N, rb, i) = Some(LastK(log, c)[i + 1])
                        /\ get(N, rb, i) = get(N, old, len(N, old) - c + i)
                 /\ get(N, rb, c) = None
                 /\ (c = 0) => (is_empty(rb) /\ rb.tail = clear(old).tail)
            ELSE /\ rb.tail = old.tail
                 /\ Contents(N, rb) = Contents(N, old)

C4_Witness ==
    /\ call.op = "truncate_front"
    /\ call.arg > 1
    /\ call.arg < len(N, call.old)
    /\ Wraps(N, call.old)
    /\ get(N, rb, 0) # get(N, rb, 1)

\* C5: clear() sets tail to 0, so len() == 0 and is_empty() holds and nothing
\* is readable; clear() followed by push(x) gives len() == 1, last() == x and
\* get(0) == x, and no element pushed before the clear is observable.
C5_ClearThenPush ==
    /\ [](call.op = "clear" =>
            /\ rb.tail = 0
            /\ len(N, rb) = 0
            /\ is_empty(rb)
            /\ last(N, rb) = None
            /\ \A i \in 0..MaxN : get(N, rb, i) = None)
    /\ [][(call.op = "clear" /\ call'.op = "push") =>
            /\ len(N, rb') = 1
            /\ last(N, rb') = Some(call'.arg)
            /\ get(N, rb', 0) = Some(call'.arg)
            /\ Contents(N, rb') = <<call'.arg>>
            /\ \A i \in 1..MaxN : get(N, rb', i) = None]_vars

\* a push onto a ring that was emptied while its storage was wrapped and full
\* of earlier values
C5_Witness ==
    /\ call.op = "push"
    /\ call.old.tail = 0
    /\ N >= 2
    /\ Len(log) > N + 1
    /\ \A i \in 0..(N - 1) : call.old.data[i] # Default
    /\ rb.data[1] # call.arg

\* C6: get(i) is absent iff i >= len(); for i < len() the physical index read
\* lies in [0, N) and the element is the (i+1)-th oldest retained one; last()
\* is absent iff the ring is empty and otherwise equals get(len() - 1), the
\* most recently pushed element. No read (get, last, as_slices) is out of
\* bounds.
C6_ReadsInBounds ==
    /\ \A i \in 0..(MaxN + 1) :
          /\ (get(N, rb, i) = None) <=> (i >= len(N, rb))
          /\ (i < len(N, rb)) =>
                /\ phys_index(N, rb, i) \in 0..(N - 1)
                /\ get(N, rb, i) = Some(Retained[i + 1])
    /\ (last(N, rb) = None) <=> is_empty(rb)
    /\ (~is_empty(rb)) =>
          /\ last(N, rb) = get(N, rb, len(N, rb) - 1)
          /\ last(N, rb) = Some(log[Len(log)])
    /\ as_slices(N, rb)[1] # <<Panic>>
    /\ as_slices(N, rb)[2] # <<Panic>>

C6_Witness ==
    /\ Wraps(N, rb)
    /\ N = MaxN
    /\ get(N, rb, 0) # get(N, rb, N - 1)
    /\ get(N, rb, N) = None

\* C7: len() == min(tail, N) <= N; is_empty() iff tail == 0 iff len() == 0;
\* tail changes only by +1 per push, to count on truncate_front(count) with
\* count < len(), and to 0 on clear; the oldest element sits at the physical
\* index derived from tail: (tail - N) mod N when tail > N, else 0.
C7_TailInvariant ==
    /\ DOMAIN rb.data = 0..(N - 1)
    /\ len(N, rb) = (IF rb.tail < N THEN rb.tail ELSE N)
    /\ len(N, rb) <= N
    /\ is_empty(rb) <=> (rb.tail = 0)
    /\ (rb.tail = 0) <=> (len(N, rb) = 0)
    /\ (call.op = "new") => rb.tail = 0
    /\ (call.op = "push") => rb.tail = call.old.tail + 1
    /\ (call.op = "extend") => rb.tail = call.old.tail + Len(call.arg)
    /\ (call.op = "truncate_front") =>
          rb.tail = (IF call.arg < len(N, call.old) THEN call.arg ELSE call.old.tail)
    /\ (call.op = "clear") => rb.tail = 0
    /\ (len(N, rb) > 0) =>
          rb.data[IF rb.tail > N THEN (rb.tail - N) % N ELSE 0] = Retained[1]

C7_Witness ==
    /\ call.op = "push"
    /\ rb.tail > N + 1
    /\ (rb.tail - N) % N # 0
    /\ rb.data[0] # Retained[1]

(***************************************************************************)
(* EventProcessor: the queue, the wake notifier, emit and recv (main.rs).  *)
(***************************************************************************)
Producers == 1..NumProducers

\* the (device, event) pair of producer p's k-th emit
Envelope(p, k) == [prod |-> p, seq |-> k]

\* mutant of queue_push: a queue of one slot that drops what does not fit
queue_push_bounded(q, e) == IF Len(q) >= 1 THEN q ELSE Append(q, e)

\* SegQueue::push as emit calls it: the envelope joins the back of the FIFO
queue_push(q, e) == Append(q, e)

\* mutant of queue_pop: the newest envelope is taken instead of the oldest
queue_pop_newest(q) ==
    IF q = <<>>
    THEN [val |-> None, rest |-> q]
    ELSE [val |-> Some(q[Len(q)]), rest |-> SubSeq(q, 1, Len(q) - 1)]

\* SegQueue::pop as recv calls it: the oldest envelope, removed, or None
queue_pop(q) ==
    IF q = <<>>
    THEN [val |-> None, rest |-> q]
    ELSE [val |-> Some(Head(q)), rest |-> Tail(q)]

\* Notify::notified: a future that sees every notify_waiters from now on
notified == "waiting"

\* mutant of notify_waiters: only a future that is already being awaited is woken
notify_waiters_polled_only(nf) == IF nf = "waiting" /\ cpc = "await" THEN "notified" ELSE nf

\* Notify::notify_waiters: completes the future if one is registered, stores nothing
notify_waiters(nf) == IF nf = "waiting" THEN "notified" ELSE nf

\* the producers that hold a live handle (an Arc clone) of the bus
Handles == {p \in DOMAIN pstate : pstate[p] \in {"live", "pushed"}}

\* mutant of strong_count: the dispatcher task's own reference is not counted
strong_count_without_own == Cardinality(Handles)

\* Arc::strong_count(self): the dispatcher task's own reference and the handles
strong_count == 1 + Cardinality(Handles)

\* main: the bus is created, the Bluetooth manager is given the first clone
\* and the dispatcher task is spawned
BusInit ==
    /\ queue = <<>>
    /\ notify = "none"
    /\ pstate = [p \in Producers |-> IF p = 1 THEN "live" ELSE "unborn"]
    /\ emitted = [p \in Producers |-> 0]
    /\ pushed = <<>>
    /\ cpc = "pop1"
    /\ cur = None
    /\ received = <<>>
    /\ dispatched = <<>>
    /\ dstep = 0
    /\ out = <<>>
    /\ media = <<>>
    /\ results = <<>>

\* no ring is in use beside the bus
RingAbsent ==
    /\ N = 1
    /\ rb = new(1)
    /\ log = <<>>
    /\ only_pushed = TRUE
    /\ call = [op |-> "new", arg |-> 0, old |-> new(1)]

\* Arc::clone: a producer hands a new handle to another producer context
CloneHandle(p, q) ==
    /\ pstate[p] = "live"
    /\ pstate[q] = "unborn"
    /\ pstate' = [pstate EXCEPT ![q] = "live"]
    /\ UNCHANGED <<queue, notify, emitted, pushed, cpc, cur, received, dispatched>>
    /\ UNCHANGED ringVars
    /\ UNCHANGED mediaVars
    /\ UNCHANGED dispVars

\* emit, first statement: self.queue.push((device.clone(), event))
EmitPush(p) ==
    /\ pstate[p] = "live"
    /\ Len(pushed) < MaxEnvelopes
    /\ queue' = queue_push(queue, Envelope(p, emitted[p] + 1))
    /\ pushed' = Append(pushed, Envelope(p, emitted[p] + 1))
    /\ emitted' = [emitted EXCEPT ![p] = @ + 1]
    /\ pstate' = [pstate EXCEPT ![p] = "pushed"]
    /\ UNCHANGED <<notify, cpc, cur, received, dispatched>>
    /\ UNCHANGED ringVars
    /\ UNCHANGED mediaVars
    /\ UNCHANGED dispVars

\* emit, second statement: self.notifier.notify_waiters()
EmitNotify(p) ==
    /\ pstate[p] = "pushed"
    /\ notify' = notify_waiters(notify)
    /\ pstate' = [pstate EXCEPT ![p] = "live"]
    /\ UNCHANGED <<queue, emitted, pushed, cpc, cur, received, dispatched>>
    /\ UNCHANGED ringVars
    /\ UNCHANGED mediaVars
    /\ UNCHANGED dispVars

\* a producer drops its handle; nothing is woken
DropHandle(p) ==
    /\ pstate[p] = "live"
    /\ pstate' = [pstate EXCEPT ![p] = "dropped"]
    /\ UNCHANGED <<queue, notify, emitted, pushed, cpc, cur, received, dispatched>>
    /\ UNCHANGED ringVars
    /\ UNCHANGED mediaVars
    /\ UNCHANGED dispVars

\* recv: if let Some(event) = self.queue.pop() { return Some(event) }
RecvPop1 ==
    /\ cpc = "pop1"
    /\ LET r == queue_pop(queue)
       IN  /\ queue' = r.rest
           /\ IF r.val # None
              THEN /\ cur' = r.val
                   /\ received' = Append(received, r.val[1])
                   /\ cpc' = "dispatch"
              ELSE /\ cpc' = "notified"
                   /\ UNCHANGED <<cur, received>>
    /\ UNCHANGED <<notify, pstate, emitted, pushed, dispatched>>
    /\ UNCHANGED ringVars
    /\ UNCHANGED mediaVars
    /\ UNCHANGED dispVars

\* recv: let notify = self.notifier.notified()
RecvNotified ==
    /\ cpc = "notified"
    /\ notify' = notified
    /\ cpc' = "pop2"
    /\ UNCHANGED <<queue, pstate, emitted, pushed, cur, received, dispatched>>
    /\ UNCHANGED ringVars
    /\ UNCHANGED mediaVars
    /\ UNCHANGED dispVars

\* recv: the second pop, with the wake registered; returning drops the future
RecvPop2 ==
    /\ cpc = "pop2"
    /\ LET r == queue_pop(queue)
       IN  /\ queue' = r.rest
           /\ IF r.val # None
              THEN /\ cur' = r.val
                   /\ received' = Append(received, r.val[1])
                   /\ notify' = "none"
                   /\ cpc' = "dispatch"
              ELSE /\ cpc' = "count"
                   /\ UNCHANGED <<cur, received, notify>>
    /\ UNCHANGED <<pstate, emitted, pushed, dispatched>>
    /\ UNCHANGED ringVars
    /\ UNCHANGED mediaVars
    /\ UNCHANGED dispVars

\* recv: if Arc::strong_count(self) == 1 { return None }
RecvCount ==
    /\ cpc = "count"
    /\ IF strong_count = 1
       THEN /\ cur' = None
            /\ notify' = "none"
            /\ cpc' = "done"
       ELSE /\ cpc' = "await"
            /\ UNCHANGED <<cur, notify>>
    /\ UNCHANGED <<queue, pstate, emitted, pushed, received, dispatched>>
    /\ UNCHANGED ringVars
    /\ UNCHANGED mediaVars
    /\ UNCHANGED dispVars

\* recv: time::timeout(1 s, notify).await, completed by a wake received
\* since the future was created
RecvAwaitWoken ==
    /\ cpc = "await"
    /\ notify = "notified"
    /\ notify' = "none"
    /\ cpc' = "pop1"
    /\ UNCHANGED <<queue, pstate, emitted, pushed, cur, received, dispatched>>
    /\ UNCHANGED ringVars
    /\ UNCHANGED mediaVars
    /\ UNCHANGED dispVars

\* mutant of RecvAwaitTimeout: the wait has no timeout, only a wake ends it
RecvAwaitNoTimeout ==
    /\ cpc = "await"
    /\ FALSE
    /\ UNCHANGED vars

\* recv: time::timeout(1 s, notify).await, ended by the timer
RecvAwaitTimeout ==
    /\ cpc = "await"
    /\ notify' = "none"
    /\ cpc' = "pop1"
    /\ UNCHANGED <<queue, pstate, emitted, pushed, cur, received, dispatched>>
    /\ UNCHANGED ringVars
    /\ UNCHANGED mediaVars
    /\ UNCHANGED dispVars

\* the loop body: self.dispatch(&iface, event).await, its error only logged
Dispatch ==
    /\ cpc = "dispatch"
    /\ dispatched' = Append(dispatched, cur[1])
    /\ cpc' = "pop1"
    /\ UNCHANGED <<queue, notify, pstate, emitted, pushed, cur, received>>
    /\ UNCHANGED ringVars
    /\ UNCHANGED mediaVars
    /\ UNCHANGED dispVars

BusNext ==
    \/ \E p, q \in Producers : CloneHandle(p, q)
    \/ \E p \in Producers : EmitPush(p)
    \/ \E p \in Producers : EmitNotify(p)
    \/ \E p \in Producers : DropHandle(p)
    \/ RecvPop1
    \/ RecvNotified
    \/ RecvPop2
    \/ RecvCount
    \/ RecvAwaitWoken
    \/ RecvAwaitTimeout
    \/ Dispatch

\* the bus right after the dispatcher is spawned, and no ring in use
BusStart == BusInit /\ RingAbsent /\ MediaInit

BusSpec == BusStart /\ [][BusNext]_vars

\* the dispatcher task is polled by the runtime whenever it can run, and the
\* timer of the timeout fires; nothing is assumed of the producers
ConsumerFairness ==
    /\ WF_vars(RecvPop1)
    /\ WF_vars(RecvNotified)
    /\ WF_vars(RecvPop2)
    /\ WF_vars(RecvCount)
    /\ WF_vars(RecvAwaitWoken)
    /\ WF_vars(RecvAwaitTimeout)
    /\ WF_vars(Dispatch)

FairBusSpec == BusStart /\ [][BusNext]_vars /\ ConsumerFairness

\* the envelopes of producer p in a sequence of envelopes, in order
OfProducer(s, p) == SelectSeq(s, LAMBDA e : e.prod = p)

\* K: the number of envelopes emitted in total
RECURSIVE EmittedUpTo(_)
EmittedUpTo(p) == IF p = 0 THEN 0 ELSE emitted[p] + EmittedUpTo(p - 1)
TotalEmitted == EmittedUpTo(NumProducers)

\* the elements of a sequence
Range(s) == {s[i] : i \in 1..Len(s)}

(***************************************************************************)
(* Claims about the event bus, checked under BusSpec.                      *)
(***************************************************************************)

\* C8 (as claimed): with K envelopes emitted in total by concurrent producers
\* and one consumer calling recv repeatedly, no envelope is returned twice,
\* every producer's envelopes are returned in the order it emitted them, and
\* when the consumer has finished (recv has reported the terminal outcome) it
\* has received exactly the K emitted envelopes.
C8_ExactlyOnceInOrder ==
    /\ received \o queue = pushed
    /\ \A i, j \in 1..Len(received) : (i # j) => (received[i] # received[j])
    /\ \A p \in Producers :
          OfProducer(received, p) =
              [k \in 1..Len(OfProducer(received, p)) |-> Envelope(p, k)]
    /\ (cpc = "done") =>
          /\ Len(received) = TotalEmitted
          /\ Range(received) =
                {Envelope(p, k) : p \in Producers, k \in 1..MaxEnvelopes} \cap Range(pushed)

\* C9 (as claimed): no emitted event is permanently missed; once the loop has
\* exited (no further recv is made) every envelope whose emit completed has
\* been returned by recv and handed to dispatch.
C9_NoEventMissed ==
    (cpc = "done") =>
        \A p \in Producers : \A k \in 1..emitted[p] :
            /\ Envelope(p, k) \in Range(received)
            /\ Envelope(p, k) \in Range(dispatched)

\* C10: recv has two outcomes, an envelope popped from the queue or the
\* terminal outcome; it returns the terminal outcome only when the consumer's
\* own reference is the only one left, never while a producer handle is alive.
C10_TerminalOnlyWithoutProducers ==
    /\ (cpc = "dispatch") =>
          /\ cur # None
          /\ cur[1] \in Range(pushed)
          /\ cur[1] = received[Len(received)]
          /\ cur[1] \notin Range(queue)
    /\ (cpc = "done") =>
          /\ cur = None
          /\ Handles = {}
    /\ (Handles # {}) => (cpc # "done")

C10_Witness ==
    /\ cpc = "done"
    /\ cur = None
    /\ Handles = {}
    /\ Len(received) >= 2
    /\ \A p \in Producers : pstate[p] = "dropped"

\* C11: once every producer handle is dropped the dispatcher loop exits
\* without an external trigger: with no handle alive the wait is never entered
\* again, so at most the one timeout already pending expires before recv
\* returns the terminal outcome, and the loop dispatches nothing afterwards.
C11_ExitsAfterLastDrop ==
    /\ (Handles = {}) ~> (cpc = "done")
    /\ [][(Handles = {} /\ cpc # "await") => (cpc' # "await")]_vars
    /\ [][(cpc = "done") =>
            (cpc' = "done" /\ dispatched' = dispatched /\ received' = received)]_vars

C11_Witness ==
    /\ cpc = "done"
    /\ Handles = {}
    /\ queue = <<>>
    /\ Len(dispatched) = MaxEnvelopes
    /\ dispatched = pushed

(***************************************************************************)
(* EventProcessor::dispatch followed one IPC call at a time (main.rs).     *)
(***************************************************************************)
\* the textual addresses of the tracked devices
Addresses == {"AA", "BB"}

\* AirPodsEvent; the ear flags matter for EarDetectionChanged only
Events ==
    {[kind |-> k, left |-> FALSE, right |-> FALSE] :
        k \in {"DeviceConnected", "DeviceDisconnected", "BatteryUpdated",
               "NoiseControlChanged", "DeviceNameChanged", "DeviceError"}}
    \cup {[kind |-> "EarDetectionChanged", left |-> l, right |-> r] :
            l \in BOOLEAN, r \in BOOLEAN}

\* the device whose event is emitted k-th: the two devices report in turn
DeviceOf(k) == IF k % 2 = 1 THEN "AA" ELSE "BB"

\* the queue item (device, event) of producer p's k-th emit
EventEnvelope(p, k, addr, event) ==
    [prod |-> p, seq |-> k, addr |-> addr, ev |-> event]

\* mutant of dispatch_calls: connected_count_changed is notified for every event
dispatch_calls_always_count(event) ==
    CASE event.kind = "DeviceConnected" ->
            <<"device_connected", "devices_changed", "connected_count_changed">>
      [] event.kind = "DeviceDisconnected" ->
            <<"device_disconnected", "devices_changed", "connected_count_changed">>
      [] event.kind = "BatteryUpdated" ->
            <<"battery_updated", "devices_changed", "connected_count_changed">>
      [] event.kind = "NoiseControlChanged" ->
            <<"noise_control_changed", "devices_changed", "connected_count_changed">>
      [] event.kind = "EarDetectionChanged" ->
            <<"ear_detection_changed", "devices_changed", "connected_count_changed">>
      [] event.kind = "DeviceNameChanged" ->
            <<"device_name_changed", "devices_changed", "connected_count_changed">>
      [] event.kind = "DeviceError" ->
            <<"device_error", "devices_changed", "connected_count_changed">>

\* dispatch: the IPC calls of each match arm, in the order they are awaited
dispatch_calls(event) ==
    CASE event.kind = "DeviceConnected" ->
            <<"device_connected", "devices_changed", "connected_count_changed">>
      [] event.kind = "DeviceDisconnected" ->
            <<"device_disconnected", "devices_changed", "connected_count_changed">>
      [] event.kind = "BatteryUpdated" ->
            <<"battery_updated", "devices_changed">>
      [] event.kind = "NoiseControlChanged" ->
            <<"noise_control_changed", "devices_changed">>
      [] event.kind = "EarDetectionChanged" ->
            <<"ear_detection_changed", "devices_changed">>
      [] event.kind = "DeviceNameChanged" ->
            <<"device_name_changed", "devices_changed">>
      [] event.kind = "DeviceError" ->
            <<"device_error", "devices_changed">>

\* dispatch: let both_in_ear = is_left_in_ear() && is_right_in_ear()
both_in_ear(event) == event.left /\ event.right

\* dispatch: the media-control call of the EarDetectionChanged arm
media_command(event) == IF both_in_ear(event) THEN "send_play" ELSE "send_pause"

\* mutant of call_returns_err: a failed IPC call is ignored and dispatch goes on
call_error_ignored(ok) == FALSE

\* dispatch: `.await?` returns the error of a failed IPC call at once
call_returns_err(ok) == ~ok

\* mutant of loop_continues: the loop is left at the first dispatch error
loop_breaks_on_err(result) == IF result = "err" THEN "done" ELSE "pop1"

\* spawn_dispatcher: an Err of dispatch is logged and the loop calls recv again
loop_continues(result) == "pop1"

\* mutant of media_returns: a failed media command fails the dispatch
media_returns_failure(worked) == IF worked THEN "ok" ELSE "err"

\* dispatch: send_play / send_pause return (), so the arm ends in Ok(())
media_returns(worked) == "ok"

\* emit, first statement, with the device and the event of the envelope
EmitPushEvent(p, addr, event) ==
    /\ pstate[p] = "live"
    /\ Len(pushed) < MaxEvents
    /\ LET e == EventEnvelope(p, emitted[p] + 1, addr, event)
       IN  /\ queue' = queue_push(queue, e)
           /\ pushed' = Append(pushed, e)
    /\ emitted' = [emitted EXCEPT ![p] = @ + 1]
    /\ pstate' = [pstate EXCEPT ![p] = "pushed"]
    /\ UNCHANGED <<notify, cpc, cur, received, dispatched>>
    /\ UNCHANGED ringVars
    /\ UNCHANGED mediaVars
    /\ UNCHANGED dispVars

\* dispatch: the next IPC call of the current envelope is awaited and
\* succeeds or fails; after the last one a non-ear arm returns Ok(())
DispatchCall(ok) ==
    /\ cpc = "dispatch"
    /\ LET e == cur[1]
           calls == dispatch_calls(e.ev)
       IN  /\ dstep < Len(calls)
           /\ out' = Append(out, [n |-> Len(received), call |-> calls[dstep + 1],
                                  addr |-> e.addr, ok |-> ok])
           /\ IF call_returns_err(ok)
              THEN /\ results' = Append(results, "err")
                   /\ dispatched' = Append(dispatched, e)
                   /\ cpc' = loop_continues("err")
                   /\ dstep' = 0
              ELSE IF dstep + 1 < Len(calls) \/ e.ev.kind = "EarDetectionChanged"
                   THEN /\ dstep' = dstep + 1
                        /\ UNCHANGED <<results, dispatched, cpc>>
                   ELSE /\ results' = Append(results, "ok")
                        /\ dispatched' = Append(dispatched, e)
                        /\ cpc' = loop_continues("ok")
                        /\ dstep' = 0
    /\ UNCHANGED <<queue, notify, pstate, emitted, pushed, cur, received, media>>
    /\ UNCHANGED ringVars
    /\ UNCHANGED mediaVars

\* dispatch, EarDetectionChanged arm: send_play / send_pause is awaited; it
\* returns () whether its MPRIS calls worked or not, and dispatch returns Ok(())
DispatchMedia(worked) ==
    /\ cpc = "dispatch"
    /\ LET e == cur[1]
       IN  /\ e.ev.kind = "EarDetectionChanged"
           /\ dstep = Len(dispatch_calls(e.ev))
           /\ media' = Append(media, [n |-> Len(received), cmd |-> media_command(e.ev),
                                      worked |-> worked])
           /\ results' = Append(results, media_returns(worked))
           /\ dispatched' = Append(dispatched, e)
           /\ cpc' = loop_continues(media_returns(worked))
           /\ dstep' = 0
    /\ UNCHANGED <<queue, notify, pstate, emitted, pushed, cur, received, out>>
    /\ UNCHANGED ringVars
    /\ UNCHANGED mediaVars

DispNext ==
    \/ \E p \in Producers, addr \in Addresses \cap {DeviceOf(Len(pushed) + 1)},
             event \in Events :
          EmitPushEvent(p, addr, event)
    \/ \E p \in Producers : EmitNotify(p)
    \/ \E p \in Producers : DropHandle(p)
    \/ RecvPop1
    \/ RecvNotified
    \/ RecvPop2
    \/ RecvCount
    \/ RecvAwaitWoken
    \/ RecvAwaitTimeout
    \/ \E ok \in BOOLEAN : DispatchCall(ok)
    \/ \E worked \in BOOLEAN : DispatchMedia(worked)

DispSpec == BusStart /\ [][DispNext]_vars

\* the IPC calls recorded for the n-th envelope handed to dispatch
OutOf(n) == SelectSeq(out, LAMBDA x : x.n = n)

\* the names of the calls of a recorded sequence
CallsOf(s) == [i \in 1..Len(s) |-> s[i].call]

\* the call lists of a sequence of envelopes, one after the other
RECURSIVE FlatCalls(_)
FlatCalls(envs) ==
    IF envs = <<>> THEN <<>>
    ELSE dispatch_calls(Head(envs).ev) \o FlatCalls(Tail(envs))

IsPrefix(s, t) == Len(s) <= Len(t) /\ s = SubSeq(t, 1, Len(s))

C14_MediaOncePerEarEvent ==
    \A n \in 1..Len(dispatched) :
        dispatched[n].ev.kind = "EarDetectionChanged" =>
            LET cmds == SelectSeq(media, LAMBDA x : x.n = n)
            IN  /\ Len(cmds) = 1
                /\ cmds[1].cmd = (IF dispatched[n].ev.left /\ dispatched[n].ev.right
                                  THEN "send_play" ELSE "send_pause")

\* C15: a failed IPC call neither halts the loop nor loses a later envelope:
\* the step that ends a dispatch in an error leaves the queue as it is and
\* takes the loop back to recv, and an envelope dispatched after a failed one
\* gets its full call list when its own calls succeed.
C15_FailureDoesNotHaltLoop ==
    /\ [][(Len(results') > Len(results) /\ results'[Len(results')] = "err") =>
            (cpc' = "pop1" /\ queue' = queue /\ pushed' = pushed)]_vars
    /\ [](\A n \in 1..Len(results) :
            (results[n] = "ok" /\ \E m \in 1..(n - 1) : results[m] = "err") =>
                /\ CallsOf(OutOf(n)) = dispatch_calls(dispatched[n].ev)
                /\ dispatched[n] = pushed[n])

C15_Witness ==
    /\ results = <<"err", "ok">>
    /\ Len(OutOf(1)) = 1
    /\ dispatched[2].ev.kind = "DeviceConnected"
    /\ Len(OutOf(2)) = 3

\* C17: media play / pause is invoked only while an EarDetectionChanged
\* envelope is dispatched, and a failure inside play / pause is not
\* propagated: that dispatch still ends in Ok.
C17_MediaOnlyForEarEvents ==
    \A i \in 1..Len(media) :
        /\ media[i].n <= Len(received)
        /\ received[media[i].n].ev.kind = "EarDetectionChanged"
        /\ media[i].n <= Len(results)
        /\ results[media[i].n] = "ok"

C17_Witness ==
    /\ Len(media) = 1
    /\ ~media[1].worked
    /\ results = <<"ok", "ok">>
    /\ dispatched[1].ev.kind = "DeviceError"

\* C16: emit never blocks, fails or drops: a live handle can always append
\* (up to the cap of the exploration) and a producer that has appended can
\* always wake; the append makes the queue exactly one envelope longer, and
\* an envelope leaves the queue only through the consumer's pop.
C16_EmitNeverBlocksOrDrops ==
    /\ [](\A p \in Producers :
            /\ (pstate[p] = "live" /\ Len(pushed) < MaxEnvelopes) => ENABLED EmitPush(p)
            /\ pstate[p] = "pushed" => ENABLED EmitNotify(p))
    /\ [][pushed' # pushed =>
            /\ Len(queue') = Len(queue) + 1
            /\ queue' = Append(queue, pushed'[Len(pushed')])]_vars
    /\ [][(queue' # queue /\ pushed' = pushed) =>
            /\ cpc \in {"pop1", "pop2"}
            /\ queue # <<>>
            /\ queue' = Tail(queue)
            /\ received' = Append(received, Head(queue))]_vars

C16_Witness ==
    /\ Len(queue) = MaxEnvelopes
    /\ queue = pushed
    /\ \A p \in Producers : pstate[p] = "live"
    /\ \E p \in Producers : emitted[p] >= 2

\* C18: no wake is lost: the wake future is registered before the second pop
\* and stays registered until recv returns or the wait ends, and whenever the
\* consumer is suspended with an envelope queued, the wake of that envelope
\* has been received by the future or its emit has not yet issued it.
C18_NoLostWakeup ==
    /\ cpc \in {"pop2", "count", "await"} => notify \in {"waiting", "notified"}
    /\ (cpc \in {"count", "await"} /\ queue # <<>>) =>
          \/ notify = "notified"
          \/ \E p \in Producers : pstate[p] = "pushed"

C18_Witness ==
    /\ cpc = "count"
    /\ notify = "notified"
    /\ queue # <<>>
    /\ \A p \in Producers : pstate[p] # "pushed"

(***************************************************************************)
(* media_control.rs: send_play and send_pause, one suspension point at a   *)
(* time.  The calls come from the dispatcher task, one after the other.    *)
(***************************************************************************)
\* the names list_names can report, in the order the bus lists them
BusNames ==
    << [prefix |-> "org.freedesktop.", rest |-> "Notifications"],
       [prefix |-> "org.mpris.MediaPlayer2.", rest |-> "kdeconnect"],
       [prefix |-> "org.mpris.MediaPlayer2.", rest |-> "mpv"],
       [prefix |-> "org.mpris.MediaPlayer2.", rest |-> "vlc"] >>

\* the name lists list_names can return: the names that are on the bus
NameLists ==
    {SelectSeq(BusNames, LAMBDA x : x \in present) :
        present \in SUBSET {BusNames[i] : i \in DOMAIN BusNames}}

\* send_pause: the filter that keeps the MPRIS players, KDE Connect excluded
is_mpris_player(name) ==
    /\ name.prefix = "org.mpris.MediaPlayer2."
    /\ name.rest \notin {"kdeconnect", "KDEConnect"}

\* mutant of clone: only the first recorded player is copied
clone_first_only(v) == IF v = <<>> THEN <<>> ELSE <<Head(v)>>

\* Vec::clone of the recorded players
clone(v) == v

\* mutant of guard_after_statement: the guard is bound and lives on
guard_kept(held) == held

\* a temporary MutexGuard is dropped at the end of its statement
guard_after_statement(held) == FALSE

\* the positions at which send_play / send_pause are suspended in an .await
Suspended ==
    {"play_send", "pause_connect", "pause_proxy", "pause_list",
     "pause_check", "pause_send"}

\* mutant of call_may_start: media calls are started without waiting for
\* the one that is running
call_may_start_anytime(pos) == TRUE

\* dispatch awaits send_play / send_pause and the loop awaits dispatch, so
\* the single dispatcher task starts a media call only when none is running
call_may_start(pos) == pos = "idle"

\* the dispatcher calls send_play()
SendPlayCall ==
    /\ call_may_start(mpc)
    /\ mpc' = "play_lock"
    /\ last_call' = "send_play"
    /\ recorded' = PAUSED_PLAYERS
    /\ sent' = <<>>
    /\ paused_players' = <<>>
    /\ mpris_services' = <<>>
    /\ next_player' = 0
    /\ UNCHANGED <<PAUSED_PLAYERS, locked>>
    /\ UNCHANGED <<ringVars, busVars, dispVars>>

\* send_play: PAUSED_PLAYERS.lock()
PlayLock ==
    /\ mpc = "play_lock"
    /\ ~locked
    /\ locked' = TRUE
    /\ mpc' = "play_clone"
    /\ UNCHANGED <<PAUSED_PLAYERS, paused_players, mpris_services, next_player,
                   sent, recorded, last_call>>
    /\ UNCHANGED <<ringVars, busVars, dispVars>>

\* send_play: .clone(), end of the statement, and the is_empty early return
PlayClone ==
    /\ mpc = "play_clone"
    /\ paused_players' = clone(PAUSED_PLAYERS)
    /\ locked' = guard_after_statement(locked)
    /\ IF paused_players' = <<>>
       THEN mpc' = "idle" /\ next_player' = 0
       ELSE mpc' = "play_send" /\ next_player' = 1
    /\ UNCHANGED <<PAUSED_PLAYERS, mpris_services, sent, recorded, last_call>>
    /\ UNCHANGED <<ringVars, busVars, dispVars>>

\* send_play: send_mpris_command_to_player("Play", player_name).await
PlaySend(ok) ==
    /\ mpc = "play_send"
    /\ sent' = Append(sent, [method |-> "Play",
                             player |-> paused_players[next_player], ok |-> ok])
    /\ IF next_player < Len(paused_players)
       THEN next_player' = next_player + 1 /\ mpc' = "play_send"
       ELSE next_player' = 0 /\ mpc' = "clear_lock"
    /\ UNCHANGED <<PAUSED_PLAYERS, locked, paused_players, mpris_services,
                   recorded, last_call>>
    /\ UNCHANGED <<ringVars, busVars, dispVars>>

\* send_play: PAUSED_PLAYERS.lock() of the last statement
PlayClearLock ==
    /\ mpc = "clear_lock"
    /\ ~locked
    /\ locked' = TRUE
    /\ mpc' = "clear"
    /\ UNCHANGED <<PAUSED_PLAYERS, paused_players, mpris_services, next_player,
                   sent, recorded, last_call>>
    /\ UNCHANGED <<ringVars, busVars, dispVars>>

\* send_play: .clear(), end of the statement, return
PlayClear ==
    /\ mpc = "clear"
    /\ PAUSED_PLAYERS' = <<>>
    /\ locked' = guard_after_statement(locked)
    /\ mpc' = "idle"
    /\ UNCHANGED <<paused_players, mpris_services, next_player, sent, recorded,
                   last_call>>
    /\ UNCHANGED <<ringVars, busVars, dispVars>>

\* the dispatcher calls send_pause()
SendPauseCall ==
    /\ call_may_start(mpc)
    /\ mpc' = "pause_connect"
    /\ last_call' = "send_pause"
    /\ recorded' = PAUSED_PLAYERS
    /\ sent' = <<>>
    /\ paused_players' = <<>>
    /\ mpris_services' = <<>>
    /\ next_player' = 0
    /\ UNCHANGED <<PAUSED_PLAYERS, locked>>
    /\ UNCHANGED <<ringVars, busVars, dispVars>>

\* send_pause: Connection::session().await, return on failure
PauseConnect(ok) ==
    /\ mpc = "pause_connect"
    /\ mpc' = IF ok THEN "pause_proxy" ELSE "idle"
    /\ UNCHANGED <<PAUSED_PLAYERS, locked, paused_players, mpris_services,
                   next_player, sent, recorded, last_call>>
    /\ UNCHANGED <<ringVars, busVars, dispVars>>

\* send_pause: DBusProxy::new(&connection).await, return on failure
PauseProxy(ok) ==
    /\ mpc = "pause_proxy"
    /\ mpc' = IF ok THEN "pause_list" ELSE "idle"
    /\ UNCHANGED <<PAUSED_PLAYERS, locked, paused_players, mpris_services,
                   next_player, sent, recorded, last_call>>
    /\ UNCHANGED <<ringVars, busVars, dispVars>>

\* send_pause: list_names().await, the filter, and the return when the call
\* failed or no player is left
PauseListNames(ok, names) ==
    /\ mpc = "pause_list"
    /\ LET found == IF ok THEN SelectSeq(names, is_mpris_player) ELSE <<>>
       IN  /\ mpris_services' = found
           /\ IF found = <<>>
              THEN mpc' = "idle" /\ next_player' = 0
              ELSE mpc' = "pause_check" /\ next_player' = 1
    /\ UNCHANGED <<PAUSED_PLAYERS, locked, paused_players, sent, recorded, last_call>>
    /\ UNCHANGED <<ringVars, busVars, dispVars>>

\* send_pause: where the for loop goes after the player at next_player, given
\* the local vector as it then is
AfterPlayer(local) ==
    IF next_player < Len(mpris_services)
    THEN [mpc |-> "pause_check", next_player |-> next_player + 1]
    ELSE [mpc |-> IF local = <<>> THEN "idle" ELSE "store_lock", next_player |-> 0]

\* send_pause: is_player_playing(service_name).await; status is "Err",
\* "Playing" or "Other"
PauseCheck(status) ==
    /\ mpc = "pause_check"
    /\ IF status = "Playing"
       THEN mpc' = "pause_send" /\ UNCHANGED next_player
       ELSE /\ mpc' = AfterPlayer(paused_players).mpc
            /\ next_player' = AfterPlayer(paused_players).next_player
    /\ UNCHANGED <<PAUSED_PLAYERS, locked, paused_players, mpris_services,
                   sent, recorded, last_call>>
    /\ UNCHANGED <<ringVars, busVars, dispVars>>

\* send_pause: send_mpris_command_to_player("Pause", service_name).await and
\* the push on success
PauseSend(ok) ==
    /\ mpc = "pause_send"
    /\ sent' = Append(sent, [method |-> "Pause",
                             player |-> mpris_services[next_player], ok |-> ok])
    /\ paused_players' = IF ok THEN Append(paused_players, mpris_services[next_player])
                         ELSE paused_players
    /\ mpc' = AfterPlayer(paused_players').mpc
    /\ next_player' = AfterPlayer(paused_players').next_player
    /\ UNCHANGED <<PAUSED_PLAYERS, locked, mpris_services, recorded, last_call>>
    /\ UNCHANGED <<ringVars, busVars, dispVars>>

\* send_pause: PAUSED_PLAYERS.lock() of the last statement
PauseStoreLock ==
    /\ mpc = "store_lock"
    /\ ~locked
    /\ locked' = TRUE
    /\ mpc' = "store"
    /\ UNCHANGED <<PAUSED_PLAYERS, paused_players, mpris_services, next_player,
                   sent, recorded, last_call>>
    /\ UNCHANGED <<ringVars, busVars, dispVars>>

\* send_pause: *guard = paused_players, end of the statement, return
PauseStore ==
    /\ mpc = "store"
    /\ PAUSED_PLAYERS' = paused_players
    /\ locked' = guard_after_statement(locked)
    /\ mpc' = "idle"
    /\ UNCHANGED <<paused_players, mpris_services, next_player, sent, recorded,
                   last_call>>
    /\ UNCHANGED <<ringVars, busVars, dispVars>>

MediaNext ==
    \/ SendPlayCall
    \/ PlayLock
    \/ PlayClone
    \/ \E ok \in BOOLEAN : PlaySend(ok)
    \/ PlayClearLock
    \/ PlayClear
    \/ SendPauseCall
    \/ \E ok \in BOOLEAN : PauseConnect(ok)
    \/ \E ok \in BOOLEAN : PauseProxy(ok)
    \/ \E ok \in BOOLEAN, names \in NameLists : PauseListNames(ok, names)
    \/ \E status \in {"Err", "Playing", "Other"} : PauseCheck(status)
    \/ \E ok \in BOOLEAN : PauseSend(ok)
    \/ PauseStoreLock
    \/ PauseStore

MediaStart == RingAbsent /\ BusAbsent /\ MediaInit

MediaSpec == MediaStart /\ [][MediaNext]_vars

\* the players the recorded commands went to, in order
PlayersOf(s) == [i \in 1..Len(s) |-> s[i].player]

\* C19: the lock of PAUSED_PLAYERS is never held while send_play or
\* send_pause is suspended in an .await; a guard is alive only within the
\* statement that took it.
C19_LockNotHeldAcrossAwait ==
    /\ mpc \in Suspended => ~locked
    /\ locked => mpc \in {"play_clone", "clear", "store"}

C19_Witness ==
    /\ mpc = "play_send"
    /\ next_player = 2
    /\ ~locked
    /\ PAUSED_PLAYERS = paused_players

\* C20: send_play sends Play to exactly the players recorded when it was
\* called, in their order; with nothing recorded it sends nothing; and when
\* it returns after sending, nothing is recorded any more, whether the
\* commands succeeded or not.
C20_PlayResumesRecordedPlayers ==
    last_call = "send_play" =>
        /\ \A i \in 1..Len(sent) : sent[i].method = "Play"
        /\ IsPrefix(PlayersOf(sent), recorded)
        /\ mpc = "idle" => PlayersOf(sent) = recorded
        /\ recorded = <<>> => (sent = <<>> /\ PAUSED_PLAYERS = <<>>)
        /\ (mpc = "idle" /\ recorded # <<>>) => PAUSED_PLAYERS = <<>>

C20_Witness ==
    /\ last_call = "send_play"
    /\ mpc = "idle"
    /\ Len(recorded) = 2
    /\ Len(sent) = 2
    /\ ~sent[1].ok
    /\ sent[2].ok
    /\ PAUSED_PLAYERS = <<>>

\* C21: PAUSED_PLAYERS tracks all players paused by us: when a send_pause
\* returns, the record holds every player that was recorded when it was
\* called (those paused since the last send_play) and every player this
\* call paused successfully, so that the next send_play resumes all of them.
C21_RecordTracksAllPaused ==
    (last_call = "send_pause" /\ mpc = "idle") =>
        /\ Range(recorded) \subseteq Range(PAUSED_PLAYERS)
        /\ \A i \in 1..Len(sent) :
              sent[i].ok => sent[i].player \in Range(PAUSED_PLAYERS)

\* C22: whenever recv has returned the terminal outcome the queue is empty
\* and every envelope pushed has been returned by an earlier recv.
C22_QueueEmptyAtTerminal ==
    cpc = "done" => (queue = <<>> /\ received = pushed)

\* C23: a failed IPC call ends the dispatch of its envelope: only the last
\* call made for an envelope can have failed, the calls made are a prefix of
\* the envelope's call list (nothing later is issued, nothing is retried),
\* and the loop gets one result per envelope, an error exactly when a call
\* failed.
C23_DispatchStopsAtFailure ==
    /\ Len(results) = Len(dispatched)
    /\ \A n \in 1..Len(received) :
          LET mine == OutOf(n)
          IN  /\ IsPrefix(CallsOf(mine), dispatch_calls(received[n].ev))
              /\ \A i \in 1..Len(mine) : ~mine[i].ok => i = Len(mine)
              /\ n <= Len(results) =>
                    (results[n] = "err" <=> \E i \in 1..Len(mine) : ~mine[i].ok)

C23_Witness ==
    /\ Len(results) = MaxEvents
    /\ results[1] = "err"
    /\ dispatched[1].ev.kind = "DeviceConnected"
    /\ CallsOf(OutOf(1)) = <<"device_connected", "devices_changed">>
    /\ OutOf(1)[1].ok
    /\ ~OutOf(1)[2].ok
    /\ out[Len(out)].n = 2

\* C24: Ring refines a bounded reference list under mixed operations: each
\* call takes the list read through get(0) .. get(len() - 1) to the list the
\* reference operation gives (push appends and drops the oldest element
\* beyond N, extend pushes each item, truncate_front(c) keeps the last c
\* elements when c < length, clear empties), and nothing is readable at or
\* past len().
C24_RefinesBoundedSequence ==
    LET before == Contents(N, call.old)
        bounded(l) == IF Len(l) <= N THEN l ELSE SubSeq(l, Len(l) - N + 1, Len(l))
        after == CASE call.op = "new" -> <<>>
                   [] call.op = "push" -> bounded(Append(before, call.arg))
                   [] call.op = "extend" -> bounded(before \o call.arg)
                   [] call.op = "truncate_front" ->
                        IF call.arg < Len(before)
                        THEN SubSeq(before, Len(before) - call.arg + 1, Len(before))
                        ELSE before
                   [] call.op = "clear" -> <<>>
    IN  /\ Contents(N, rb) = after
        /\ len(N, rb) = Len(after)
        /\ \A i \in len(N, rb)..(MaxN + 1) : get(N, rb, i) = None

\* a push that overwrites the oldest element of a ring that was shortened or
\* cleared earlier and has been filled again since
C24_Witness ==
    /\ call.op = "push"
    /\ N >= 2
    /\ call.old.tail >= N
    /\ Len(log) > rb.tail
    /\ Contents(N, rb) = Tail(Contents(N, call.old)) \o <<call.arg>>
    /\ get(N, rb, 0) # get(N, rb, N - 1)

====
